---- MODULE Spec2Model ----
(***************************************************************************)
(* Model of setup.py of NeMo: the requirements loader req_file, the        *)
(* module-level script (long description, dependency groups, setup call)   *)
(* and the style-check command StyleCommand.                               *)
(*                                                                         *)
(* Text is modelled as sequences of one-character strings, so that         *)
(* readlines, strip and startswith are computed character by character.    *)
(***************************************************************************)
EXTENDS Integers, Sequences, FiniteSets, TLC

VARIABLES
    \* req_file as a function of the file text
    content,        \* text of the requirements file given to req_file
    result,         \* list returned by req_file
    called,         \* TRUE once req_file has returned
    \* the module-level script
    pc,             \* statement the script is about to execute
    md_exists,      \* os.path.exists('nemo/README.md')
    rst_exists,     \* os.path.exists('README.rst')
    long_description,
    long_description_content_type,
    opened,         \* requirement files opened so far, in order
    loaded,         \* what each completed req_file call returned
    install_requires,
    extras_require, \* ordered dict: sequence of [k |-> key, v |-> list]
    tests_requirements,
    setup_kwargs,   \* keyword arguments setup() was invoked with
    error,          \* exception that terminated the script, or "none"
    \* StyleCommand
    spc,            \* position of the style command
    installed,      \* external tools that can be started
    scope,          \* self.scope
    fix,            \* self.fix
    check,          \* local variable check of run
    calls,          \* argument lists handed to subprocess.call, in order
    isort_return,
    black_return,
    verdict,        \* "none", "PASS" or "FAIL"
    raised,         \* "none", "SystemExit" or "OSError"
    exit_code       \* code carried by SystemExit

reqVars == <<content, result, called>>
scriptVars == <<pc, md_exists, rst_exists, long_description,
                long_description_content_type, opened, loaded,
                install_requires, extras_require, tests_requirements,
                setup_kwargs, error>>
styleVars == <<spc, installed, scope, fix, check, calls, isort_return,
               black_return, verdict, raised, exit_code>>
vars == <<reqVars, scriptVars, styleVars>>

\* Python's None
None == "None"

(***************************************************************************)
(* Bounds                                                                  *)
(***************************************************************************)
\* longest requirements file text given to req_file, in characters
MaxLen == 5
\* exit codes of a tool range over -MaxCode..MaxCode (negative: killed by
\* a signal)
MaxCode == 2

(***************************************************************************)
(* Text                                                                    *)
(***************************************************************************)
NL == "\n"
Chars == {"a", "#", " ", NL}
Whitespace == {" ", NL}

Texts(n) == UNION {[1..k -> Chars] : k \in 0..n}

\* index of the first line terminator of s, or Len(s) when there is none
RECURSIVE LineEnd(_, _)
LineEnd(s, i) ==
    IF i >= Len(s) THEN Len(s)
    ELSE IF s[i] = NL THEN i
    ELSE LineEnd(s, i + 1)

\* f.readlines(): the lines of the text, each keeping its terminator
RECURSIVE readlines(_)
readlines(s) ==
    IF s = <<>> THEN <<>>
    ELSE LET k == LineEnd(s, 1)
         IN  <<SubSeq(s, 1, k)>> \o readlines(SubSeq(s, k + 1, Len(s)))

RECURSIVE lstrip(_)
lstrip(x) ==
    IF x # <<>> /\ Head(x) \in Whitespace THEN lstrip(Tail(x)) ELSE x

RECURSIVE rstrip(_)
rstrip(x) ==
    IF x # <<>> /\ x[Len(x)] \in Whitespace
    THEN rstrip(SubSeq(x, 1, Len(x) - 1))
    ELSE x

\* str.strip()
strip(x) == rstrip(lstrip(x))

\* str.startswith(p)
startswith(x, p) == Len(x) >= Len(p) /\ SubSeq(x, 1, Len(p)) = p

\* the filter of the list comprehension of req_file
Kept(x) == strip(x) # <<>> /\ ~startswith(x, <<"#">>)

RECURSIVE Comprehension(_)
Comprehension(lines) ==
    IF lines = <<>> THEN <<>>
    ELSE (IF Kept(Head(lines)) THEN <<strip(Head(lines))>> ELSE <<>>)
         \o Comprehension(Tail(lines))

\* req_file(filename, folder) applied to the text of the opened file
req_file(text) == Comprehension(readlines(text))

(***************************************************************************)
(* req_file on every file text of at most MaxLen characters                *)
(***************************************************************************)
IdleScript ==
    /\ pc = "idle"
    /\ md_exists = FALSE
    /\ rst_exists = FALSE
    /\ long_description = None
    /\ long_description_content_type = None
    /\ opened = <<>>
    /\ loaded = <<>>
    /\ install_requires = <<>>
    /\ extras_require = <<>>
    /\ tests_requirements = <<>>
    /\ setup_kwargs = <<>>
    /\ error = "none"

IdleStyle ==
    /\ spc = "idle"
    /\ installed = {}
    /\ scope = None
    /\ fix = None
    /\ check = FALSE
    /\ calls = <<>>
    /\ isort_return = None
    /\ black_return = None
    /\ verdict = "none"
    /\ raised = "none"
    /\ exit_code = None

IdleReq ==
    /\ content = <<>>
    /\ result = <<>>
    /\ called = FALSE

InitReq ==
    /\ content \in Texts(MaxLen)
    /\ result = <<>>
    /\ called = FALSE
    /\ IdleScript
    /\ IdleStyle

CallReqFile ==
    /\ ~called
    /\ result' = req_file(content)
    /\ called' = TRUE
    /\ UNCHANGED <<content, scriptVars, styleVars>>

NextReq == CallReqFile

SpecReq == InitReq /\ [][NextReq]_vars

\* the lines the loader is specified to return: every line that is not
\* blank and whose first non-whitespace character is not '#', trimmed
RECURSIVE NonCommentLines(_)
NonCommentLines(lines) ==
    IF lines = <<>> THEN <<>>
    ELSE (IF strip(Head(lines)) # <<>> /\ Head(strip(Head(lines))) # "#"
          THEN <<strip(Head(lines))>> ELSE <<>>)
         \o NonCommentLines(Tail(lines))

\* C5: req_file returns exactly the non-blank, non-comment lines of the
\* file, trimmed, in file order, a comment line being one whose first
\* non-whitespace character is '#'; no returned string is empty or starts
\* with '#'.
C5_ReqFileDropsComments ==
    called =>
        /\ result = NonCommentLines(readlines(content))
        /\ \A i \in 1..Len(result) :
              result[i] # <<>> /\ result[i][1] # "#"

(***************************************************************************)
(* The module-level script                                                 *)
(***************************************************************************)
\* the requirement files in the order the script opens them
ReqFiles ==
    <<"requirements.txt", "requirements_test.txt", "requirements_asr.txt",
      "requirements_cv.txt", "requirements_nlp.txt", "requirements_tts.txt",
      "requirements_text_processing.txt">>

\* the keys of the dict literal extras_require, in source order; key i is
\* loaded from ReqFiles[i + 1]
GroupKeys == <<"test", "asr", "cv", "nlp", "tts", "text_processing">>

\* texts a requirements file may hold
SampleTexts ==
    { <<"#", "a", NL>>,
      <<"a", NL>>,
      <<" ", "b", NL>>,
      <<"#", " ", NL, NL, " ", "b", " ", NL, "a">> }

\* ordered dict
HasKey(d, k) == \E i \in 1..Len(d) : d[i].k = k
DictGet(d, k) == d[CHOOSE i \in 1..Len(d) : d[i].k = k].v
DictSet(d, k, v) ==
    IF HasKey(d, k)
    THEN [i \in 1..Len(d) |-> IF d[i].k = k THEN [k |-> k, v |-> v] ELSE d[i]]
    ELSE Append(d, [k |-> k, v |-> v])
\* dict.values()
Values(d) == [i \in 1..Len(d) |-> d[i].v]

\* chain.from_iterable(lists), as a list
RECURSIVE FlattenReversed(_)
FlattenReversed(lists) ==
    IF lists = <<>> THEN <<>>
    ELSE FlattenReversed(Tail(lists)) \o Head(lists)

RECURSIVE Flatten(_)
Flatten(lists) ==
    IF lists = <<>> THEN <<>>
    ELSE Head(lists) \o Flatten(Tail(lists))

\* the value of extras_require['all']
AllOf(d) == Flatten(Values(d))

\* the value of extras_require['tts'] after the cross-link
AsrThenTts(d) == DictGet(d, "asr") \o DictGet(d, "tts")

TtsThenInstall(d) == DictGet(d, "tts") \o install_requires

TtsDependsOnAsr(d) == DictGet(d, "tts") \o DictGet(d, "asr")

\* what a file read returns, as a token standing for the file's text
Contents(path) == <<"contents of ", path>>

\* package_info.__homepage__
Homepage == "__homepage__"

RstFirst(md, rst) ==
    IF rst
    THEN [text |-> Contents("README.rst"), type |-> "text/x-rst"]
    ELSE IF md
    THEN [text |-> Contents("nemo/README.md"), type |-> "text/markdown"]
    ELSE [text |-> <<"See ", Homepage>>, type |-> "text/plain"]

\* the if / elif / else choosing the long description
ChooseLongDescription(md, rst) ==
    IF md
    THEN [text |-> Contents("nemo/README.md"), type |-> "text/markdown"]
    ELSE IF rst
    THEN [text |-> Contents("README.rst"), type |-> "text/x-rst"]
    ELSE [text |-> <<"See ", Homepage>>, type |-> "text/plain"]

InitScript ==
    /\ pc = "package_info"
    /\ md_exists \in BOOLEAN
    /\ rst_exists \in BOOLEAN
    /\ long_description = None
    /\ long_description_content_type = None
    /\ opened = <<>>
    /\ loaded = <<>>
    /\ install_requires = <<>>
    /\ extras_require = <<>>
    /\ tests_requirements = <<>>
    /\ setup_kwargs = <<>>
    /\ error = "none"
    /\ IdleReq
    /\ IdleStyle

\* executing nemo/package_info.py and copying its attributes
LoadPackageInfo ==
    /\ pc = "package_info"
    /\ \/ /\ pc' = "long_description"
          /\ error' = "none"
       \/ /\ pc' = "failed"
          /\ error' = "FileNotFoundError"
    /\ UNCHANGED <<md_exists, rst_exists, long_description,
                   long_description_content_type, opened, loaded,
                   install_requires, extras_require, tests_requirements,
                   setup_kwargs, reqVars, styleVars>>

LongDescription ==
    /\ pc = "long_description"
    /\ long_description' = ChooseLongDescription(md_exists, rst_exists).text
    /\ long_description_content_type' =
           ChooseLongDescription(md_exists, rst_exists).type
    /\ pc' = "install_requires"
    /\ UNCHANGED <<md_exists, rst_exists, opened, loaded, install_requires,
                   extras_require, tests_requirements, setup_kwargs, error,
                   reqVars, styleVars>>

\* the file the next req_file call opens
NextFile == ReqFiles[Len(opened) + 1]

\* req_file returns: the file exists and holds text
ReqFileReturns(text) ==
    /\ pc \in {"install_requires", "extras_require"}
    /\ opened' = Append(opened, [file |-> NextFile, ok |-> TRUE])
    /\ loaded' = Append(loaded, req_file(text))
    /\ IF pc = "install_requires"
       THEN /\ install_requires' = req_file(text)
            /\ pc' = "extras_require"
            /\ UNCHANGED extras_require
       ELSE /\ extras_require' =
                   DictSet(extras_require, GroupKeys[Len(extras_require) + 1],
                           req_file(text))
            /\ pc' = IF Len(extras_require) + 1 = Len(GroupKeys)
                     THEN "all" ELSE "extras_require"
            /\ UNCHANGED install_requires
    /\ UNCHANGED <<md_exists, rst_exists, long_description,
                   long_description_content_type, tests_requirements,
                   setup_kwargs, error, reqVars, styleVars>>

\* a missing file read as an empty one
ReqFileFallsBack ==
    /\ pc \in {"install_requires", "extras_require"}
    /\ opened' = Append(opened, [file |-> NextFile, ok |-> FALSE])
    /\ loaded' = Append(loaded, <<>>)
    /\ IF pc = "install_requires"
       THEN /\ install_requires' = <<>>
            /\ pc' = "extras_require"
            /\ UNCHANGED extras_require
       ELSE /\ extras_require' =
                   DictSet(extras_require, GroupKeys[Len(extras_require) + 1],
                           <<>>)
            /\ pc' = IF Len(extras_require) + 1 = Len(GroupKeys)
                     THEN "all" ELSE "extras_require"
            /\ UNCHANGED install_requires
    /\ UNCHANGED <<md_exists, rst_exists, long_description,
                   long_description_content_type, tests_requirements,
                   setup_kwargs, error, reqVars, styleVars>>

\* req_file raises: open() fails on a missing or unreadable file and
\* nothing catches the exception
ReqFileRaises ==
    /\ pc \in {"install_requires", "extras_require"}
    /\ opened' = Append(opened, [file |-> NextFile, ok |-> FALSE])
    /\ error' = "OSError"
    /\ pc' = "failed"
    /\ UNCHANGED <<md_exists, rst_exists, long_description,
                   long_description_content_type, loaded, install_requires,
                   extras_require, tests_requirements, setup_kwargs,
                   reqVars, styleVars>>

\* extras_require['all'] = list(chain.from_iterable(extras_require.values()))
FlattenExtras ==
    /\ pc = "all"
    /\ extras_require' = DictSet(extras_require, "all", AllOf(extras_require))
    /\ pc' = "tts"
    /\ UNCHANGED <<md_exists, rst_exists, long_description,
                   long_description_content_type, opened, loaded,
                   install_requires, tests_requirements, setup_kwargs, error,
                   reqVars, styleVars>>

\* extras_require['tts'] = list(chain(extras_require['tts'], extras_require['asr']))
CrossLinkTts ==
    /\ pc = "tts"
    /\ extras_require' =
           DictSet(extras_require, "tts", TtsDependsOnAsr(extras_require))
    /\ pc' = "tests_requirements"
    /\ UNCHANGED <<md_exists, rst_exists, long_description,
                   long_description_content_type, opened, loaded,
                   install_requires, tests_requirements, setup_kwargs, error,
                   reqVars, styleVars>>

\* tests_requirements = extras_require["test"]
TestsRequirements ==
    /\ pc = "tests_requirements"
    /\ tests_requirements' = DictGet(extras_require, "test")
    /\ pc' = "setup"
    /\ UNCHANGED <<md_exists, rst_exists, long_description,
                   long_description_content_type, opened, loaded,
                   install_requires, extras_require, setup_kwargs, error,
                   reqVars, styleVars>>

\* setup(...)
CallSetup ==
    /\ pc = "setup"
    /\ setup_kwargs' =
           [long_description |-> long_description,
            long_description_content_type |-> long_description_content_type,
            install_requires |-> install_requires,
            tests_require |-> tests_requirements,
            extras_require |-> extras_require]
    /\ pc' = "done"
    /\ UNCHANGED <<md_exists, rst_exists, long_description,
                   long_description_content_type, opened, loaded,
                   install_requires, extras_require, tests_requirements,
                   error, reqVars, styleVars>>

NextScript ==
    \/ LoadPackageInfo
    \/ LongDescription
    \/ \E text \in SampleTexts : ReqFileReturns(text)
    \/ ReqFileRaises
    \/ FlattenExtras
    \/ CrossLinkTts
    \/ TestsRequirements
    \/ CallSetup

SpecScript == InitScript /\ [][NextScript]_vars

(***************************************************************************)
(* Properties of the script                                                *)
(***************************************************************************)
Range(f) == {f[i] : i \in 1..Len(f)}

\* what req_file returned for the file of a group
LoadedGroup(k) ==
    loaded[1 + CHOOSE i \in 1..Len(GroupKeys) : GroupKeys[i] = k]

SixGroupsInOrder ==
    LoadedGroup("test") \o LoadedGroup("asr") \o LoadedGroup("cv")
        \o LoadedGroup("nlp") \o LoadedGroup("tts")
        \o LoadedGroup("text_processing")

\* C6: when the 'all' group is assembled it is the concatenation of test,
\* asr, cv, nlp, tts, text_processing in that order, duplicates kept: its
\* length is the sum of the six lengths and each of its entries comes from
\* a group file, never from the base requirements file alone.
C6_AllIsConcatenation ==
    pc = "tts" =>
        /\ DictGet(extras_require, "all") = SixGroupsInOrder
        /\ Len(DictGet(extras_require, "all")) =
               Len(LoadedGroup("test")) + Len(LoadedGroup("asr"))
               + Len(LoadedGroup("cv")) + Len(LoadedGroup("nlp"))
               + Len(LoadedGroup("tts")) + Len(LoadedGroup("text_processing"))
        /\ \A e \in Range(DictGet(extras_require, "all")) :
               \E i \in 1..Len(GroupKeys) : e \in Range(LoadedGroup(GroupKeys[i]))

\* 'all' has just been assembled from groups that repeat an entry, and
\* the base requirements hold an entry that no group has
C6_Witness ==
    /\ pc = "tts"
    /\ LoadedGroup("test") = <<<<"a">>>>
    /\ LoadedGroup("tts") = <<<<"a">>>>
    /\ DictGet(extras_require, "all") = <<<<"a">>, <<"a">>>>
    /\ <<"b">> \in Range(install_requires)

\* C7: after assembly the 'tts' group is the entries of the tts file
\* followed by the entries of the asr group, and every other group, 'all'
\* included, is as it was before the cross-link; setup receives this
\* mapping.
C7_TtsExtendedByAsr ==
    pc \in {"tests_requirements", "setup", "done"} =>
        /\ DictGet(extras_require, "tts") =
               LoadedGroup("tts") \o LoadedGroup("asr")
        /\ Len(DictGet(extras_require, "tts")) =
               Len(LoadedGroup("tts")) + Len(LoadedGroup("asr"))
        /\ \A i \in 1..Len(GroupKeys) :
               GroupKeys[i] # "tts" =>
                   DictGet(extras_require, GroupKeys[i]) =
                       LoadedGroup(GroupKeys[i])
        /\ DictGet(extras_require, "all") = SixGroupsInOrder
        /\ [i \in 1..Len(extras_require) |-> extras_require[i].k] =
               Append(GroupKeys, "all")
        /\ pc = "done" => setup_kwargs.extras_require = extras_require

\* setup has received a tts group extended by a different, non-empty asr
\* group
C7_Witness ==
    /\ pc = "done"
    /\ LoadedGroup("tts") = <<<<"a">>>>
    /\ LoadedGroup("asr") = <<<<"b">>, <<"a">>>>
    /\ DictGet(setup_kwargs.extras_require, "tts")
           = <<<<"a">>, <<"b">>, <<"a">>>>

\* C8: the long description is the markdown README with text/markdown
\* when that file exists, else the reStructuredText README with
\* text/x-rst when that one exists, else 'See ' + homepage with
\* text/plain; the content type always matches the source.
C8_LongDescriptionPriority ==
    long_description # None =>
        /\ md_exists =>
               /\ long_description = Contents("nemo/README.md")
               /\ long_description_content_type = "text/markdown"
        /\ (~md_exists /\ rst_exists) =>
               /\ long_description = Contents("README.rst")
               /\ long_description_content_type = "text/x-rst"
        /\ (~md_exists /\ ~rst_exists) =>
               /\ long_description = <<"See ", Homepage>>
               /\ long_description_content_type = "text/plain"
        /\ pc = "done" =>
               /\ setup_kwargs.long_description = long_description
               /\ setup_kwargs.long_description_content_type =
                      long_description_content_type

\* both README files exist and setup received the markdown one
C8_Witness ==
    /\ pc = "done"
    /\ md_exists /\ rst_exists
    /\ setup_kwargs.long_description_content_type = "text/markdown"

\* C9: a requirement file that is missing or unreadable ends the script
\* with the unhandled error: it is the last file opened, nothing was
\* substituted for it, and setup is never invoked.
C9_MissingFileIsFatal ==
    \A i \in 1..Len(opened) :
        ~opened[i].ok =>
            /\ i = Len(opened)
            /\ pc = "failed"
            /\ error = "OSError"
            /\ Len(loaded) = i - 1
            /\ setup_kwargs = <<>>

\* the tts file is missing after five files were read
C9_Witness ==
    /\ Len(opened) = 6
    /\ opened[6] = [file |-> "requirements_tts.txt", ok |-> FALSE]
    /\ pc = "failed"

\* C10: in the mapping handed to setup, the set of requirement strings of
\* 'all' is the union of the sets of test, asr, cv, nlp, tts (as extended)
\* and text_processing.
C10_AllIsUnionOfFinalGroups ==
    pc = "done" =>
        Range(DictGet(setup_kwargs.extras_require, "all")) =
            UNION {Range(DictGet(setup_kwargs.extras_require, GroupKeys[i])) :
                       i \in 1..Len(GroupKeys)}

\* setup received a tts group that the cross-link enlarged as a set
C10_Witness ==
    /\ pc = "done"
    /\ Range(LoadedGroup("tts")) = {<<"a">>}
    /\ Range(DictGet(setup_kwargs.extras_require, "tts")) = {<<"a">>, <<"b">>}

(***************************************************************************)
(* StyleCommand                                                            *)
(***************************************************************************)
\* StyleCommand.__ISORT_BASE.split()
IsortBase ==
    <<"isort", "--multi-line=3", "--trailing-comma", "--force-grid-wrap=0",
      "--use-parentheses", "--line-width=119", "-rc", "-ws">>

\* StyleCommand.__BLACK_BASE.split()
BlackBase ==
    <<"black", "--skip-string-normalization", "--line-length=119">>

\* values of --scope on the command line
Scopes == {".", "nemo", "tests/core"}

\* values of self.fix: '' from initialize_options, "1" for the 1 that the
\* option parser stores when --fix is given
FixValues == {"", "1"}

\* return codes of subprocess.call
ExitCodes == (0 - MaxCode)..MaxCode

\* Python truth value of self.fix
Truthy(v) == v # ""

\* check = not self.fix
CheckIsFix(f) == Truthy(f)

CheckOf(f) == ~Truthy(f)

\* the list __call_checker hands to subprocess.call
call_checker(base_command, sc, chk) ==
    base_command \o <<sc>> \o (IF chk THEN <<"--check", "--diff">> ELSE <<>>)

\* the statement that follows self._isort(...) returning r
BlackOnlyAfterCleanIsort(r) == IF r = 0 THEN "black" ELSE "verdict"

AfterIsort(r) == "black"

\* the condition of the if in run
IsortPassed(i, b) == i = 0

BothPassed(i, b) == i = 0 /\ b = 0

\* the argument of SystemExit
BlackCodeFirst(i, b) == IF b # 0 THEN b ELSE i

SystemExitCode(i, b) == IF i # 0 THEN i ELSE b

InitStyle ==
    /\ spc = "new"
    /\ installed \in SUBSET {"isort", "black"}
    /\ scope = None
    /\ fix = None
    /\ check = FALSE
    /\ calls = <<>>
    /\ isort_return = None
    /\ black_return = None
    /\ verdict = "none"
    /\ raised = "none"
    /\ exit_code = None
    /\ IdleReq
    /\ IdleScript

initialize_options ==
    /\ spc = "new"
    /\ scope' = "."
    /\ fix' = ""
    /\ spc' = "parse"
    /\ UNCHANGED <<installed, check, calls, isort_return, black_return,
                   verdict, raised, exit_code, reqVars, scriptVars>>

\* the option parser stores the user_options given on the command line
ParseOptions(sc, fx) ==
    /\ spc = "parse"
    /\ scope' = sc
    /\ fix' = fx
    /\ spc' = "finalize"
    /\ UNCHANGED <<installed, check, calls, isort_return, black_return,
                   verdict, raised, exit_code, reqVars, scriptVars>>

finalize_options ==
    /\ spc = "finalize"
    /\ spc' = "run"
    /\ UNCHANGED <<installed, scope, fix, check, calls, isort_return,
                   black_return, verdict, raised, exit_code, reqVars,
                   scriptVars>>

\* scope, check = self.scope, not self.fix
RunBegin ==
    /\ spc = "run"
    /\ check' = CheckOf(fix)
    /\ spc' = "isort"
    /\ UNCHANGED <<installed, scope, fix, calls, isort_return, black_return,
                   verdict, raised, exit_code, reqVars, scriptVars>>

\* isort_return = self._isort(scope, check), the tool running to its end
IsortReturns(r) ==
    /\ spc = "isort"
    /\ "isort" \in installed
    /\ calls' = Append(calls, call_checker(IsortBase, scope, check))
    /\ isort_return' = r
    /\ spc' = AfterIsort(r)
    /\ UNCHANGED <<installed, scope, fix, check, black_return, verdict,
                   raised, exit_code, reqVars, scriptVars>>

\* subprocess.call raises OSError when the program cannot be started, and
\* run does not catch it
IsortCannotStart ==
    /\ spc = "isort"
    /\ "isort" \notin installed
    /\ calls' = Append(calls, call_checker(IsortBase, scope, check))
    /\ raised' = "OSError"
    /\ spc' = "done"
    /\ UNCHANGED <<installed, scope, fix, check, isort_return, black_return,
                   verdict, exit_code, reqVars, scriptVars>>

\* black_return = self._black(scope, check)
BlackReturns(r) ==
    /\ spc = "black"
    /\ "black" \in installed
    /\ calls' = Append(calls, call_checker(BlackBase, scope, check))
    /\ black_return' = r
    /\ spc' = "verdict"
    /\ UNCHANGED <<installed, scope, fix, check, isort_return, verdict,
                   raised, exit_code, reqVars, scriptVars>>

BlackCannotStart ==
    /\ spc = "black"
    /\ "black" \notin installed
    /\ calls' = Append(calls, call_checker(BlackBase, scope, check))
    /\ raised' = "OSError"
    /\ spc' = "done"
    /\ UNCHANGED <<installed, scope, fix, check, isort_return, black_return,
                   verdict, exit_code, reqVars, scriptVars>>

\* self._pass()
Pass ==
    /\ spc = "verdict"
    /\ BothPassed(isort_return, black_return)
    /\ verdict' = "PASS"
    /\ spc' = "done"
    /\ UNCHANGED <<installed, scope, fix, check, calls, isort_return,
                   black_return, raised, exit_code, reqVars, scriptVars>>

\* self._fail(); raise SystemExit(...)
Fail ==
    /\ spc = "verdict"
    /\ ~BothPassed(isort_return, black_return)
    /\ verdict' = "FAIL"
    /\ raised' = "SystemExit"
    /\ exit_code' = SystemExitCode(isort_return, black_return)
    /\ spc' = "done"
    /\ UNCHANGED <<installed, scope, fix, check, calls, isort_return,
                   black_return, reqVars, scriptVars>>

NextStyle ==
    \/ initialize_options
    \/ \E sc \in Scopes, fx \in FixValues : ParseOptions(sc, fx)
    \/ finalize_options
    \/ RunBegin
    \/ \E r \in ExitCodes : IsortReturns(r)
    \/ IsortCannotStart
    \/ \E r \in ExitCodes : BlackReturns(r)
    \/ BlackCannotStart
    \/ Pass
    \/ Fail

SpecStyle == InitStyle /\ [][NextStyle]_vars

(***************************************************************************)
(* Properties of StyleCommand                                              *)
(***************************************************************************)
\* both invocations returned an exit code
BothReturned == Len(calls) = 2 /\ raised # "OSError"

\* C1: for the exit codes i and b of isort and black: i = 0 and b = 0 gives
\* PASS and no SystemExit; otherwise FAIL and SystemExit with code i when
\* i # 0 and b when i = 0, a code that is never 0.
C1_ExitCodePolicy ==
    (spc = "done" /\ BothReturned) =>
        IF isort_return = 0 /\ black_return = 0
        THEN verdict = "PASS" /\ raised = "none" /\ exit_code = None
        ELSE /\ verdict = "FAIL"
             /\ raised = "SystemExit"
             /\ isort_return # 0 => exit_code = isort_return
             /\ isort_return = 0 => exit_code = black_return
             /\ exit_code # 0

\* both tools failed with different codes and isort's code was raised
C1_Witness ==
    /\ spc = "done"
    /\ Len(calls) = 2
    /\ raised = "SystemExit"
    /\ isort_return = 1
    /\ black_return = 2
    /\ exit_code = 1

\* C2 as stated: every run invokes isort once and then black once, black
\* whatever the outcome of isort.
C2_BlackAlwaysRuns ==
    spc = "done" =>
        /\ Len(calls) = 2
        /\ Head(calls[1]) = "isort"
        /\ Head(calls[2]) = "black"

\* C2: isort is invoked first and at most once, black at most once and only
\* after isort returned; black is invoked whatever exit code isort
\* returned; the verdict and SystemExit come only after both returned; a
\* tool that cannot be started ends the run with OSError and no verdict,
\* so black is not invoked when isort could not be started.
C2_Sequencing ==
    /\ Len(calls) <= 2
    /\ Len(calls) >= 1 => Head(calls[1]) = "isort"
    /\ Len(calls) = 2 => Head(calls[2]) = "black" /\ "isort" \in installed
    /\ spc \in {"new", "parse", "finalize", "run", "isort"} => calls = <<>>
    /\ (spc \in {"verdict", "done"} /\ "isort" \in installed) => Len(calls) = 2
    /\ (verdict # "none" \/ raised = "SystemExit") =>
           /\ spc = "done"
           /\ Len(calls) = 2
           /\ {"isort", "black"} \subseteq installed
    /\ (spc = "done" /\ "isort" \notin installed) =>
           Len(calls) = 1 /\ raised = "OSError" /\ verdict = "none"
    /\ (spc = "done" /\ "isort" \in installed /\ "black" \notin installed) =>
           Len(calls) = 2 /\ raised = "OSError" /\ verdict = "none"

\* isort exited non-zero and black was still invoked
C2_Witness ==
    /\ spc = "done"
    /\ Len(calls) = 2
    /\ raised = "SystemExit"
    /\ isort_return = 1
    /\ black_return = 0

\* C3 as stated: every failure of a tool, a non-zero exit or a tool that
\* cannot be started, ends the run with SystemExit carrying an exit code.
C3_EveryFailureIsExitCode ==
    (spc = "done" /\ verdict # "PASS") =>
        raised = "SystemExit" /\ exit_code \in ExitCodes \ {0}

\* C3: a tool that starts and exits non-zero raises nothing when it
\* returns; the failure surfaces at the end of the run as SystemExit with
\* isort's code if isort failed, else black's. A tool that cannot be
\* started raises OSError out of run at once, with no verdict and no
\* SystemExit.
C3_FailureSurfacing ==
    /\ spc \in {"black", "verdict"} => raised = "none" /\ verdict = "none"
    /\ (spc = "done" /\ BothReturned
          /\ (isort_return # 0 \/ black_return # 0)) =>
           /\ raised = "SystemExit"
           /\ verdict = "FAIL"
           /\ exit_code = (IF isort_return # 0 THEN isort_return
                           ELSE black_return)
    /\ raised = "SystemExit" => spc = "done" /\ BothReturned
    /\ (spc = "done" /\ ~({"isort", "black"} \subseteq installed)) =>
           raised = "OSError" /\ verdict = "none" /\ exit_code = None
    /\ raised = "OSError" => ~({"isort", "black"} \subseteq installed)

\* only black exited non-zero and its code was raised at the end
C3_Witness ==
    /\ spc = "done"
    /\ raised = "SystemExit"
    /\ isort_return = 0
    /\ black_return = 2
    /\ exit_code = 2

====
